---- MODULE Spec2Model ----
(***************************************************************************)
(* A model of src/App.tsx: the meeting view-state container of each        *)
(* browser tab, the same-origin broadcast channel between the tabs, the    *)
(* hosted streaming-audio sessions a tab opens, and the scheduling of the  *)
(* returned audio chunks against the audio clock.                          *)
(*                                                                         *)
(* Spec      the meeting lifecycle of the tabs and their presence messages *)
(* FairSpec  Spec with the event loop's fairness (queued messages are      *)
(*           handled, a reload that was started completes)                 *)
(* MediaSpec the tabs in a meeting: toggles, capture timer, video frames   *)
(* AiSpec    the tabs in a meeting and their streaming sessions            *)
(* AudioSpec the onmessage callback of one streaming session               *)
(*                                                                         *)
(* A tab's id is <<tab, page load>>: the random token of localId is taken  *)
(* to be unique. The steps of one handler between two awaits, and the      *)
(* effects of the render that follows them, are one action.                *)
(***************************************************************************)
EXTENDS Integers, Sequences, FiniteSets, TLC

\* ------------------------------------------------------------------ bounds
\* The tabs of one browser profile.
Tabs == {1, 2}
\* Page reloads in all, after the first load of each tab (each load draws a
\* new localId).
MaxLoads == 1
\* Messages queued on all channels together and not yet handled.
MaxInFlight == 1
\* Streaming sessions connected in all.
MaxAi == 2
\* Permission denials in all.
MaxAlerts == 1

\* Audio chunks the streaming session delivers.
MaxChunks == 3
\* The longest buffer duration, in ticks of the audio clock.
MaxDur == 2
\* The last tick of the audio clock.
MaxClock == 4

\* The encoded images a capture can produce.
Frames == {1, 2}
Sessions == 1 .. MaxAi

\* ------------------------------------------------------------------ state
VARIABLES
    status,        \* useState<MeetingStatus>, per tab
    participants,  \* useState<Participant[]>, per tab
    isMicOn,       \* useState(true)
    isCamOn,       \* useState(true)
    isAiActive,    \* useState(false)
    localStream,   \* localStreamRef.current is set
    localId,       \* localId.current, <<tab, page load>>
    closure,       \* the isMicOn/isCamOn the channel's onmessage closes over
    timers,        \* capture intervals that are active
    inbox,         \* messages queued for the tab's open channel, oldest first
    sessionRef,    \* sessionRef.current: 0 (null) or a session
    sess,          \* per tab and session: unused/pending/open/closed/aborted
    tabOpen,       \* the tab has not been closed
    alerts,        \* alert() calls so far
    \* history, read by the properties only
    leftIds,       \* ids whose connected tab ran leaveMeeting
    closedIds,     \* ids whose connected tab was closed
    dropped,       \* per tab: ids whose LEAVE its closed channel discarded
    recvFrame,     \* per tab: <<id, frame>> last received since id was added
    removed,       \* per tab: ids whose entry a LEAVE message removed
    \* the audio context of one streaming session (AudioSpec)
    currentTime,   \* outCtx.currentTime
    nextStartTime, \* nextStartTimeRef.current
    decoding,      \* chunks whose decodeAudioData is pending
    sources,       \* buffer sources that were started
    audioSources,  \* audioSourcesRef.current
    isAiSpeaking,  \* useState(false)
    arrived        \* chunks delivered to onmessage so far

tabVars == <<status, participants, isMicOn, isCamOn, isAiActive, localStream,
             localId, closure, timers, inbox, sessionRef, sess, tabOpen, alerts,
             leftIds, closedIds, dropped, recvFrame, removed>>
audioVars == <<currentTime, nextStartTime, decoding, sources, audioSources,
               isAiSpeaking, arrived>>
vars == <<tabVars, audioVars>>

\* ------------------------------------------------------------------ roster
AiBotId == <<0, 0>>

Ids(roster) == {roster[i].id : i \in DOMAIN roster}

Participant(id, isLocal, isAI, isVideoOn, isAudioOn) ==
    [id |-> id, isLocal |-> isLocal, isAI |-> isAI, isVideoOn |-> isVideoOn,
     isAudioOn |-> isAudioOn, lastFrame |-> 0]

\* startMeeting's localP
LocalP(id) == Participant(id, TRUE, FALSE, TRUE, TRUE)

\* the payload of startMeeting's JOIN: {...localP, isLocal: false, stream: undefined}
JoinPayload(id) == [LocalP(id) EXCEPT !.isLocal = FALSE]

\* getLocalParticipantData, as the closure that calls it sees isCamOn and isMicOn
GetLocalParticipantData(id, cl) ==
    Participant(id, FALSE, FALSE, cl.cam, cl.mic)

\* toggleAi's aiParticipant
AiParticipant == Participant(AiBotId, FALSE, TRUE, TRUE, TRUE)

\* a VIDEO_FRAME handler that keeps the frame an entry already holds
OnVideoFrameKeepsFirst(prev, payload) ==
    [i \in DOMAIN prev |->
        IF prev[i].id = payload.id /\ prev[i].lastFrame = 0
        THEN [prev[i] EXCEPT !.lastFrame = payload.frame, !.isVideoOn = TRUE]
        ELSE prev[i]]

\* channel.onmessage, type VIDEO_FRAME
OnVideoFrame(prev, payload) ==
    [i \in DOMAIN prev |->
        IF prev[i].id = payload.id
        THEN [prev[i] EXCEPT !.lastFrame = payload.frame, !.isVideoOn = TRUE]
        ELSE prev[i]]

\* channel.onmessage, types JOIN and PRESENCE: the roster they leave
OnJoin(prev, payload) ==
    IF payload.id \in Ids(prev) THEN prev ELSE Append(prev, payload)

\* a LEAVE handler whose filter keeps the entry that left
OnLeaveInverted(prev, payload) ==
    SelectSeq(prev, LAMBDA p : p.id = payload.id)

\* channel.onmessage, type LEAVE
OnLeave(prev, payload) ==
    SelectSeq(prev, LAMBDA p : p.id # payload.id)

\* an UPDATE handler that adds an entry when none has the payload's id
OnUpdateUpserts(prev, payload) ==
    IF payload.id \in Ids(prev)
    THEN [i \in DOMAIN prev |->
            IF prev[i].id = payload.id
            THEN IF payload.key = "isAudioOn"
                 THEN [prev[i] EXCEPT !.isAudioOn = payload.value]
                 ELSE [prev[i] EXCEPT !.isVideoOn = payload.value]
            ELSE prev[i]]
    ELSE Append(prev, Participant(payload.id, FALSE, FALSE, TRUE, TRUE))

\* channel.onmessage, type UPDATE: { ...p, ...payload }
OnUpdate(prev, payload) ==
    [i \in DOMAIN prev |->
        IF prev[i].id = payload.id
        THEN IF payload.key = "isAudioOn"
             THEN [prev[i] EXCEPT !.isAudioOn = payload.value]
             ELSE [prev[i] EXCEPT !.isVideoOn = payload.value]
        ELSE prev[i]]

\* toggleAi, off branch: prev.filter(p => !p.isAI)
RemoveAi(prev) == SelectSeq(prev, LAMBDA p : ~p.isAI)

\* toggleAi, on branch: [aiParticipant, ...prev]
AddAi(prev) == <<AiParticipant>> \o prev

\* ------------------------------------------------------------------ effects
\* localVideoRef.current: the <video> of the local entry is rendered
LocalVideoRef(st, roster) ==
    /\ st \in {"joining", "connected"}
    /\ \E i \in DOMAIN roster : roster[i].isLocal

\* the frame effect without its cleanup: no interval is ever cleared
FrameEffectNoCleanup(active, st, cam, roster) ==
    active + (IF st = "connected" /\ cam /\ LocalVideoRef(st, roster) THEN 1 ELSE 0)

\* Frame Streaming effect, deps [status, isCamOn]: the previous run's cleanup
\* clears its interval, then the body may set a new one.

FrameEffect(active, st, cam, roster) ==
    (IF active > 0 THEN active - 1 ELSE 0)
    + (IF st = "connected" /\ cam /\ LocalVideoRef(st, roster) THEN 1 ELSE 0)

\* Multi-tab Sync effect, deps [status]: the new onmessage closes over the
\* getLocalParticipantData of the render that ran the effect.
SyncClosure(mic, cam) == [mic |-> mic, cam |-> cam]

\* ------------------------------------------------------------------ channel
RECURSIVE SumOver(_, _)
SumOver(f, S) ==
    IF S = {} THEN 0
    ELSE LET x == CHOOSE y \in S : TRUE IN f[x] + SumOver(f, S \ {x})

Total(f) == SumOver(f, DOMAIN f)

Msg(type, payload) == [type |-> type, payload |-> payload]

\* the channels a postMessage of tab t reaches: every other open channel
Receivers(t) == {r \in Tabs \ {t} : tabOpen[r] /\ status[r] # "ended"}

InFlight == Total([r \in Tabs |-> Len(inbox[r])])

\* tab t can post n messages after `freed` queued ones were handled or discarded
Room(t, n, freed) == InFlight - freed + n * Cardinality(Receivers(t)) <= MaxInFlight

Sent(t, msgs) ==
    [r \in Tabs |-> IF r \in Receivers(t) THEN inbox[r] \o msgs ELSE inbox[r]]

\* the sync effect's cleanup, channel.close(): queued messages are discarded;
\* the ids whose LEAVE is among them
Discarded(t) ==
    {inbox[t][i].payload.id : i \in {j \in DOMAIN inbox[t] : inbox[t][j].type = "LEAVE"}}

\* ------------------------------------------------------------------ sessions
\* session.close(), on sessionRef.current when it is set
CloseRef(ss, ref) ==
    [s \in Sessions |-> IF s = ref /\ ss[s] = "open" THEN "closed" ELSE ss[s]]

\* window.location.reload(): the document and its connections go away, a
\* connect that had not resolved is aborted
Unload(ss) ==
    [s \in Sessions |-> CASE ss[s] = "open" -> "closed"
                          [] ss[s] = "pending" -> "aborted"
                          [] OTHER -> ss[s]]

\* a leaveMeeting that closes sessionRef.current and does not reload
LeaveSessionsNoReload(ss, ref) == CloseRef(ss, ref)

\* leaveMeeting: if (sessionRef.current) sessionRef.current.close(); ...; reload()
LeaveSessions(ss, ref) == Unload(CloseRef(ss, ref))

\* ------------------------------------------------------------------ Init
\* The state after App is constructed in every tab.
TabInit ==
    /\ status = [t \in Tabs |-> "idle"]
    /\ participants = [t \in Tabs |-> <<>>]
    /\ isMicOn = [t \in Tabs |-> TRUE]
    /\ isCamOn = [t \in Tabs |-> TRUE]
    /\ isAiActive = [t \in Tabs |-> FALSE]
    /\ localStream = [t \in Tabs |-> FALSE]
    /\ localId = [t \in Tabs |-> <<t, 0>>]
    /\ closure = [t \in Tabs |-> SyncClosure(TRUE, TRUE)]
    /\ timers = [t \in Tabs |-> 0]
    /\ inbox = [t \in Tabs |-> <<>>]
    /\ sessionRef = [t \in Tabs |-> 0]
    /\ sess = [t \in Tabs |-> [s \in Sessions |-> "unused"]]
    /\ tabOpen = [t \in Tabs |-> TRUE]
    /\ alerts = [t \in Tabs |-> 0]
    /\ leftIds = {}
    /\ closedIds = {}
    /\ dropped = [t \in Tabs |-> {}]
    /\ recvFrame = [t \in Tabs |-> {}]
    /\ removed = [t \in Tabs |-> {}]

AudioInit ==
    /\ currentTime = 0
    /\ nextStartTime = 0
    /\ decoding = {}
    /\ sources = {}
    /\ audioSources = {}
    /\ isAiSpeaking = FALSE
    /\ arrived = 0

Init == TabInit /\ AudioInit

\* the page of tab t runs handlers: it is open and has not started its reload
Live(t) == tabOpen[t] /\ status[t] # "ended"

\* the footer with the mic, camera, AI and leave buttons is rendered
InMeetingView(t) == Live(t) /\ status[t] \in {"joining", "connected"}

\* ------------------------------------------------------------------ actions
\* a startMeeting that never shows 'joining': connected at the press
StartMeetingSkipsJoining(t) ==
    /\ Live(t) /\ status[t] = "idle"
    /\ status' = [status EXCEPT ![t] = "connected"]
    /\ UNCHANGED <<participants, isMicOn, isCamOn, isAiActive, localStream,
                   localId, closure, timers, inbox, sessionRef, sess, tabOpen,
                   alerts, leftIds, closedIds, dropped, recvFrame, removed>>
    /\ UNCHANGED audioVars

\* a startMeeting that sets the roster to [localP] before its await
StartMeetingPresetsRoster(t) ==
    /\ Live(t) /\ status[t] = "idle"
    /\ status' = [status EXCEPT ![t] = "joining"]
    /\ participants' = [participants EXCEPT ![t] = <<LocalP(localId[t])>>]
    /\ closure' = [closure EXCEPT ![t] = SyncClosure(isMicOn[t], isCamOn[t])]
    /\ timers' = [timers EXCEPT
                    ![t] = FrameEffect(@, "joining", isCamOn[t], participants'[t])]
    /\ inbox' = [inbox EXCEPT ![t] = <<>>]
    /\ dropped' = [dropped EXCEPT ![t] = @ \cup Discarded(t)]
    /\ UNCHANGED <<isMicOn, isCamOn, isAiActive, localStream, localId,
                   sessionRef, sess, tabOpen, alerts, leftIds, closedIds,
                   recvFrame, removed>>
    /\ UNCHANGED audioVars

\* startMeeting up to its await: setStatus('joining'), then the render's effects
StartMeeting(t) ==
    /\ Live(t) /\ status[t] = "idle"
    /\ status' = [status EXCEPT ![t] = "joining"]
    /\ closure' = [closure EXCEPT ![t] = SyncClosure(isMicOn[t], isCamOn[t])]
    /\ timers' = [timers EXCEPT
                    ![t] = FrameEffect(@, "joining", isCamOn[t], participants[t])]
    /\ inbox' = [inbox EXCEPT ![t] = <<>>]
    /\ dropped' = [dropped EXCEPT ![t] = @ \cup Discarded(t)]
    /\ UNCHANGED <<participants, isMicOn, isCamOn, isAiActive, localStream,
                   localId, sessionRef, sess, tabOpen, alerts, leftIds,
                   closedIds, recvFrame, removed>>
    /\ UNCHANGED audioVars

\* startMeeting after getUserMedia resolved
MediaGranted(t) ==
    /\ Live(t) /\ status[t] = "joining"
    /\ Room(t, 1, Len(inbox[t]))
    /\ localStream' = [localStream EXCEPT ![t] = TRUE]
    /\ participants' = [participants EXCEPT ![t] = <<LocalP(localId[t])>>]
    /\ status' = [status EXCEPT ![t] = "connected"]
    /\ inbox' = [Sent(t, <<Msg("JOIN", JoinPayload(localId[t]))>>)
                    EXCEPT ![t] = <<>>]
    /\ dropped' = [dropped EXCEPT ![t] = @ \cup Discarded(t)]
    /\ closure' = [closure EXCEPT ![t] = SyncClosure(isMicOn[t], isCamOn[t])]
    /\ timers' = [timers EXCEPT
                    ![t] = FrameEffect(@, "connected", isCamOn[t], participants'[t])]
    /\ recvFrame' = [recvFrame EXCEPT ![t] = {}]
    /\ removed' = [removed EXCEPT ![t] = {}]
    /\ UNCHANGED <<isMicOn, isCamOn, isAiActive, localId, sessionRef, sess,
                   tabOpen, alerts, leftIds, closedIds>>
    /\ UNCHANGED audioVars

\* startMeeting's catch: getUserMedia rejected
MediaDenied(t) ==
    /\ Live(t) /\ status[t] = "joining"
    /\ Total(alerts) < MaxAlerts
    /\ alerts' = [alerts EXCEPT ![t] = @ + 1]
    /\ status' = [status EXCEPT ![t] = "idle"]
    /\ closure' = [closure EXCEPT ![t] = SyncClosure(isMicOn[t], isCamOn[t])]
    /\ timers' = [timers EXCEPT
                    ![t] = FrameEffect(@, "idle", isCamOn[t], participants[t])]
    /\ inbox' = [inbox EXCEPT ![t] = <<>>]
    /\ dropped' = [dropped EXCEPT ![t] = @ \cup Discarded(t)]
    /\ UNCHANGED <<participants, isMicOn, isCamOn, isAiActive, localStream,
                   localId, sessionRef, sess, tabOpen, leftIds, closedIds,
                   recvFrame, removed>>
    /\ UNCHANGED audioVars

\* a toggleMic without the test of localStreamRef.current
ToggleMicNoGuard(t) ==
    /\ InMeetingView(t)
    /\ Room(t, 1, 0)
    /\ isMicOn' = [isMicOn EXCEPT ![t] = ~isMicOn[t]]
    /\ inbox' = Sent(t, <<Msg("UPDATE",
            [id |-> localId[t], key |-> "isAudioOn", value |-> ~isMicOn[t]])>>)
    /\ UNCHANGED <<status, participants, isCamOn, isAiActive, localStream,
                   localId, closure, timers, sessionRef, sess, tabOpen, alerts,
                   leftIds, closedIds, dropped, recvFrame, removed>>
    /\ UNCHANGED audioVars

\* toggleMic
ToggleMic(t) ==
    /\ InMeetingView(t)
    /\ IF localStream[t]
       THEN /\ Room(t, 1, 0)
            /\ isMicOn' = [isMicOn EXCEPT ![t] = ~isMicOn[t]]
            /\ inbox' = Sent(t, <<Msg("UPDATE",
                    [id |-> localId[t], key |-> "isAudioOn", value |-> ~isMicOn[t]])>>)
       ELSE UNCHANGED <<isMicOn, inbox>>
    /\ UNCHANGED <<status, participants, isCamOn, isAiActive, localStream,
                   localId, closure, timers, sessionRef, sess, tabOpen, alerts,
                   leftIds, closedIds, dropped, recvFrame, removed>>
    /\ UNCHANGED audioVars

\* toggleCam, and the frame effect of the render that follows setIsCamOn
ToggleCam(t) ==
    /\ InMeetingView(t)
    /\ IF localStream[t]
       THEN /\ Room(t, 1, 0)
            /\ isCamOn' = [isCamOn EXCEPT ![t] = ~isCamOn[t]]
            /\ timers' = [timers EXCEPT
                    ![t] = FrameEffect(@, status[t], ~isCamOn[t], participants[t])]
            /\ inbox' = Sent(t, <<Msg("UPDATE",
                    [id |-> localId[t], key |-> "isVideoOn", value |-> ~isCamOn[t]])>>)
       ELSE UNCHANGED <<isCamOn, timers, inbox>>
    /\ UNCHANGED <<status, participants, isMicOn, isAiActive, localStream,
                   localId, closure, sessionRef, sess, tabOpen, alerts,
                   leftIds, closedIds, dropped, recvFrame, removed>>
    /\ UNCHANGED audioVars

\* the capture interval's callback
FrameTick(t) ==
    /\ Live(t) /\ timers[t] > 0
    /\ LocalVideoRef(status[t], participants[t])
    /\ Room(t, 1, 0)
    /\ \E f \in Frames :
         inbox' = Sent(t, <<Msg("VIDEO_FRAME", [id |-> localId[t], frame |-> f])>>)
    /\ UNCHANGED <<status, participants, isMicOn, isCamOn, isAiActive,
                   localStream, localId, closure, timers, sessionRef, sess,
                   tabOpen, alerts, leftIds, closedIds, dropped, recvFrame, removed>>
    /\ UNCHANGED audioVars

\* leaveMeeting. Its reload discards the document: the status it set stays
\* until the reloaded page constructs App again, the rest of the state is gone.
LeaveMeeting(t) ==
    /\ InMeetingView(t)
    /\ Room(t, 1, Len(inbox[t]))
    /\ inbox' = [Sent(t, <<Msg("LEAVE", [id |-> localId[t]])>>) EXCEPT ![t] = <<>>]
    /\ sess' = [sess EXCEPT ![t] = LeaveSessions(@, sessionRef[t])]
    /\ status' = [status EXCEPT ![t] = "ended"]
    /\ timers' = [timers EXCEPT
                    ![t] = FrameEffect(@, "ended", isCamOn[t], participants[t])]
    /\ leftIds' = IF status[t] = "connected" THEN leftIds \cup {localId[t]}
                  ELSE leftIds
    /\ participants' = [participants EXCEPT ![t] = <<>>]
    /\ isMicOn' = [isMicOn EXCEPT ![t] = TRUE]
    /\ isCamOn' = [isCamOn EXCEPT ![t] = TRUE]
    /\ isAiActive' = [isAiActive EXCEPT ![t] = FALSE]
    /\ localStream' = [localStream EXCEPT ![t] = FALSE]
    /\ closure' = [closure EXCEPT ![t] = SyncClosure(TRUE, TRUE)]
    /\ sessionRef' = [sessionRef EXCEPT ![t] = 0]
    /\ dropped' = [dropped EXCEPT ![t] = {}]
    /\ recvFrame' = [recvFrame EXCEPT ![t] = {}]
    /\ removed' = [removed EXCEPT ![t] = {}]
    /\ UNCHANGED <<localId, tabOpen, alerts, closedIds>>
    /\ UNCHANGED audioVars

\* the reloaded page constructs App again, with a new localId
PageLoad(t) ==
    /\ tabOpen[t] /\ status[t] = "ended"
    /\ Total([r \in Tabs |-> localId[r][2]]) < MaxLoads
    /\ status' = [status EXCEPT ![t] = "idle"]
    /\ localId' = [localId EXCEPT ![t] = <<t, @[2] + 1>>]
    /\ UNCHANGED <<participants, isMicOn, isCamOn, isAiActive, localStream,
                   closure, timers, inbox, sessionRef, sess, tabOpen, alerts,
                   leftIds, closedIds, dropped, recvFrame, removed>>
    /\ UNCHANGED audioVars

\* the user closes the tab: no handler of App runs
CloseTab(t) ==
    /\ Live(t)
    /\ tabOpen' = [tabOpen EXCEPT ![t] = FALSE]
    /\ closedIds' = IF status[t] = "connected" THEN closedIds \cup {localId[t]}
                    ELSE closedIds
    /\ participants' = [participants EXCEPT ![t] = <<>>]
    /\ inbox' = [inbox EXCEPT ![t] = <<>>]
    /\ timers' = [timers EXCEPT ![t] = 0]
    /\ sess' = [sess EXCEPT ![t] = Unload(@)]
    /\ dropped' = [dropped EXCEPT ![t] = {}]
    /\ recvFrame' = [recvFrame EXCEPT ![t] = {}]
    /\ removed' = [removed EXCEPT ![t] = {}]
    /\ UNCHANGED <<status, isMicOn, isCamOn, isAiActive, localStream, localId,
                   closure, sessionRef, alerts, leftIds>>
    /\ UNCHANGED audioVars

\* recvFrame after tab t handled message m: the frame last received for an id
\* since its entry was added
Received(t, m) ==
    LET others == {p \in recvFrame[t] : p[1] # m.payload.id}
        known == m.payload.id \in Ids(participants[t])
    IN  CASE m.type = "VIDEO_FRAME" /\ known ->
                others \cup {<<m.payload.id, m.payload.frame>>}
          [] m.type \in {"JOIN", "PRESENCE"} /\ ~known -> others
          [] m.type = "LEAVE" -> others
          [] OTHER -> recvFrame[t]

\* channel.onmessage: the roster after message m
OnMessage(prev, m) ==
    CASE m.type = "VIDEO_FRAME" -> OnVideoFrame(prev, m.payload)
      [] m.type = "JOIN" -> OnJoin(prev, m.payload)
      [] m.type = "PRESENCE" -> OnJoin(prev, m.payload)
      [] m.type = "LEAVE" -> OnLeave(prev, m.payload)
      [] m.type = "UPDATE" -> OnUpdate(prev, m.payload)

\* the event loop runs channel.onmessage on the oldest queued message
Deliver(t) ==
    /\ Live(t) /\ inbox[t] # <<>>
    /\ LET m == Head(inbox[t])
           reply == m.type = "JOIN" /\ m.payload.id \notin Ids(participants[t])
       IN  /\ reply => Room(t, 1, 1)
           /\ participants' = [participants EXCEPT ![t] = OnMessage(@, m)]
           /\ inbox' = [(IF reply
                         THEN Sent(t, <<Msg("PRESENCE",
                                  GetLocalParticipantData(localId[t], closure[t]))>>)
                         ELSE inbox)
                            EXCEPT ![t] = Tail(inbox[t])]
           /\ recvFrame' = [recvFrame EXCEPT ![t] = Received(t, m)]
           /\ removed' = [removed EXCEPT ![t] =
                  IF m.type = "LEAVE" /\ m.payload.id \in Ids(participants[t])
                  THEN @ \cup {m.payload.id} ELSE @]
    /\ UNCHANGED <<status, isMicOn, isCamOn, isAiActive, localStream, localId,
                   closure, timers, sessionRef, sess, tabOpen, alerts, leftIds,
                   closedIds, dropped>>
    /\ UNCHANGED audioVars

\* toggleAi up to its await
ToggleAi(t) ==
    /\ InMeetingView(t)
    /\ IF isAiActive[t]
       THEN /\ sess' = [sess EXCEPT ![t] = CloseRef(@, sessionRef[t])]
            /\ isAiActive' = [isAiActive EXCEPT ![t] = FALSE]
            /\ participants' = [participants EXCEPT ![t] = RemoveAi(@)]
       ELSE /\ \E s \in Sessions :
                 /\ \A r \in Tabs : sess[r][s] = "unused"
                 /\ \A q \in Sessions :
                      q < s => \E r \in Tabs : sess[r][q] # "unused"
                 /\ sess' = [sess EXCEPT ![t][s] = "pending"]
            /\ isAiActive' = [isAiActive EXCEPT ![t] = TRUE]
            /\ participants' = [participants EXCEPT ![t] = AddAi(@)]
    /\ UNCHANGED <<status, isMicOn, isCamOn, localStream, localId, closure,
                   timers, inbox, sessionRef, tabOpen, alerts, leftIds,
                   closedIds, dropped, recvFrame, removed>>
    /\ UNCHANGED audioVars

\* toggleAi after its await: sessionRef.current = await sessionPromise
ConnectResolved(t, s) ==
    /\ Live(t) /\ sess[t][s] = "pending"
    /\ sess' = [sess EXCEPT ![t][s] = "open"]
    /\ sessionRef' = [sessionRef EXCEPT ![t] = s]
    /\ UNCHANGED <<status, participants, isMicOn, isCamOn, isAiActive,
                   localStream, localId, closure, timers, inbox, tabOpen, alerts,
                   leftIds, closedIds, dropped, recvFrame, removed>>
    /\ UNCHANGED audioVars

\* the service ends an open session; callbacks.onclose
SessionClosed(t, s) ==
    /\ Live(t) /\ sess[t][s] = "open"
    /\ sess' = [sess EXCEPT ![t][s] = "closed"]
    /\ isAiActive' = [isAiActive EXCEPT ![t] = FALSE]
    /\ UNCHANGED <<status, participants, isMicOn, isCamOn, localStream, localId,
                   closure, timers, inbox, sessionRef, tabOpen, alerts, leftIds,
                   closedIds, dropped, recvFrame, removed>>
    /\ UNCHANGED audioVars

\* ------------------------------------------------------------------ Spec
\* The meeting lifecycle of every tab and the presence messages between them.
Next ==
    \E t \in Tabs :
         \/ StartMeeting(t)
         \/ MediaGranted(t)
         \/ MediaDenied(t)
         \/ LeaveMeeting(t)
         \/ PageLoad(t)
         \/ CloseTab(t)
         \/ Deliver(t)

Spec == Init /\ [][Next]_vars

\* queued messages are handled: the event loop runs every queued task, and a
\* reload that was started completes
FairSpec ==
    /\ Spec
    /\ \A t \in Tabs : WF_vars(Deliver(t))
    /\ \A t \in Tabs : WF_vars(PageLoad(t))

\* The tabs in a meeting: microphone and camera toggles and the capture timer.
MediaNext ==
    \E t \in Tabs :
         \/ StartMeeting(t)
         \/ MediaGranted(t)
         \/ ToggleMic(t)
         \/ ToggleCam(t)
         \/ FrameTick(t)
         \/ LeaveMeeting(t)
         \/ PageLoad(t)
         \/ Deliver(t)

MediaSpec == Init /\ [][MediaNext]_vars

\* The tabs in a meeting and the streaming sessions of the AI assistant.
AiNext ==
    \E t \in Tabs :
         \/ StartMeeting(t)
         \/ MediaGranted(t)
         \/ ToggleAi(t)
         \/ \E s \in Sessions : ConnectResolved(t, s)
         \/ \E s \in Sessions : SessionClosed(t, s)
         \/ LeaveMeeting(t)
         \/ Deliver(t)

AiSpec == Init /\ [][AiNext]_vars

\* ------------------------------------------------------------------ audio
Max(a, b) == IF a >= b THEN a ELSE b

\* callbacks.onmessage up to its await, for a chunk whose buffer lasts d
AudioMessage(d) ==
    /\ arrived < MaxChunks
    /\ arrived' = arrived + 1
    /\ isAiSpeaking' = TRUE
    /\ nextStartTime' = Max(nextStartTime, currentTime)
    /\ decoding' = decoding \cup {[n |-> arrived + 1, dur |-> d]}
    /\ UNCHANGED <<currentTime, sources, audioSources>>
    /\ UNCHANGED tabVars

\* callbacks.onmessage after decodeAudioData resolved for chunk c:
\* source.start(nextStartTime) plays from the later of that time and now
Decoded(c) ==
    /\ c \in decoding
    /\ decoding' = decoding \ {c}
    /\ sources' = sources \cup
          {[n |-> c.n, at |-> nextStartTime,
            from |-> Max(nextStartTime, currentTime),
            to |-> Max(nextStartTime, currentTime) + c.dur]}
    /\ nextStartTime' = nextStartTime + c.dur
    /\ audioSources' = audioSources \cup {c.n}
    /\ UNCHANGED <<currentTime, isAiSpeaking, arrived>>
    /\ UNCHANGED tabVars

\* source.onended, once the source has played to its end
Ended(src) ==
    /\ src \in sources /\ src.n \in audioSources
    /\ currentTime >= src.to
    /\ audioSources' = audioSources \ {src.n}
    /\ isAiSpeaking' = IF audioSources' = {} THEN FALSE ELSE isAiSpeaking
    /\ UNCHANGED <<currentTime, nextStartTime, decoding, sources, arrived>>
    /\ UNCHANGED tabVars

\* the audio clock advances
Tick ==
    /\ currentTime < MaxClock
    /\ currentTime' = currentTime + 1
    /\ UNCHANGED <<nextStartTime, decoding, sources, audioSources, isAiSpeaking,
                   arrived>>
    /\ UNCHANGED tabVars

AudioNext ==
    \/ \E d \in 1 .. MaxDur : AudioMessage(d)
    \/ \E c \in decoding : Decoded(c)
    \/ \E src \in sources : Ended(src)
    \/ Tick

AudioSpec == Init /\ [][AudioNext]_vars

\* ------------------------------------------------------------------ claims
NoDuplicateIds(roster) ==
    \A i, j \in DOMAIN roster : i # j => roster[i].id # roster[j].id

\* C1: in every reachable state of every tab, no two entries of the
\* participants roster have the same id.
C1_RosterUniqueByToken == \A t \in Tabs : NoDuplicateIds(participants[t])

\* a message with payload id is queued for tab r
Queued(r, id) == \E i \in DOMAIN inbox[r] : inbox[r][i].payload.id = id

\* every id a tab can draw
AllIds == {<<t, k>> : t \in Tabs, k \in 0 .. MaxLoads}

C3_RemovedOnTabClose ==
    \A r \in Tabs : \A id \in AllIds :
        (id \in closedIds /\ id \in Ids(participants[r]))
            ~> (id \notin Ids(participants[r]))

Lifecycle ==
    {<<"idle", "joining">>, <<"joining", "connected">>, <<"connected", "ended">>}

\* the steps of one page load: the reloaded page is another load
SamePage(t) == localId'[t] = localId[t]

\* C4 as stated: within one page load every change of status is one of
\* idle->joining, joining->connected, connected->ended.
C4_FourStateLifecycle ==
    [][\A t \in Tabs :
        (SamePage(t) /\ status'[t] # status[t])
            => <<status[t], status'[t]>> \in Lifecycle]_vars

\* C4 amended: up to leaveMeeting's reload, every change of status is one of
\* idle->joining, joining->connected, connected->ended, joining->idle (the
\* media request was rejected) or joining->ended (leaveMeeting while joining).
C4_LifecycleWithDenialAndEarlyLeave ==
    [][\A t \in Tabs :
        (SamePage(t) /\ status'[t] # status[t])
            => <<status[t], status'[t]>> \in
                  Lifecycle \cup {<<"joining", "idle">>, <<"joining", "ended">>}]_vars

\* a tab is joining again after its media request was rejected
C4_Witness == \E t \in Tabs : alerts[t] = 1 /\ status[t] = "joining"

\* tab t posted nothing in this step
NothingPosted(t) == \A r \in Tabs \ {t} : inbox'[r] = inbox[r]

\* C5: when the media request of startMeeting is rejected, exactly one alert is
\* raised, status returns to idle, no message is posted, no local stream is
\* recorded and the roster is untouched, by the rejection and by the press of
\* startMeeting before it alike; nothing else raises an alert.
C5_DenialIsOneAlert ==
    [][\A t \in Tabs :
        /\ (alerts'[t] # alerts[t] \/ (status[t] = "joining" /\ status'[t] = "idle"))
              => /\ alerts'[t] = alerts[t] + 1
                 /\ status[t] = "joining" /\ status'[t] = "idle"
                 /\ participants'[t] = participants[t]
                 /\ ~localStream'[t]
                 /\ NothingPosted(t)
        /\ (status[t] = "idle" /\ status'[t] = "joining")
              => /\ participants'[t] = participants[t]
                 /\ alerts'[t] = alerts[t]
                 /\ ~localStream'[t]
                 /\ NothingPosted(t)]_vars

\* a rejected tab is idle again and still holds the entry it had received
C5_Witness ==
    \E t \in Tabs :
        /\ alerts[t] = 1 /\ status[t] = "idle" /\ ~localStream[t]
        /\ participants[t] # <<>>

\* C6: no two buffer sources play at the same instant of the audio clock, a
\* source playing from the later of its requested start time and the clock
\* value when start is called, for the buffer's duration.
C6_BuffersDoNotOverlap ==
    \A a, b \in sources :
        a.n # b.n => (a.to <= b.from \/ b.to <= a.from)

\* C7: whenever leaveMeeting ran on a tab, no streaming session of that tab is
\* open or still connecting afterwards.
C7_SessionClosedOnExit ==
    \A t \in Tabs :
        status[t] = "ended" => \A s \in Sessions : sess[t][s] \notin {"open", "pending"}

\* leaveMeeting ran while one connect was pending and another session was open
C7_Witness ==
    \E t \in Tabs :
        /\ status[t] = "ended"
        /\ \E s \in Sessions : sess[t][s] = "aborted"

\* tab t posted a VIDEO_FRAME in this step
FramePosted(t) ==
    \E r \in Tabs \ {t} :
        /\ Len(inbox'[r]) = Len(inbox[r]) + 1
        /\ inbox'[r][Len(inbox'[r])].type = "VIDEO_FRAME"
        /\ inbox'[r][Len(inbox'[r])].payload.id = localId[t]

\* C8: a tab posts a VIDEO_FRAME only while its status is connected and
\* isCamOn is true; a capture timer is active only then, so none is after
\* toggleCam turned the camera off or leaveMeeting ran; and at most one capture
\* timer is active per tab.
C8_CaptureTimerTornDown ==
    /\ [](\A t \in Tabs :
            /\ timers[t] <= 1
            /\ timers[t] > 0 => (status[t] = "connected" /\ isCamOn[t]))
    /\ [][\A t \in Tabs :
            FramePosted(t) => (status[t] = "connected" /\ isCamOn[t])]_vars

\* a connected tab whose frame was received switched its camera off: no timer
C8_Witness ==
    \E t \in Tabs :
        /\ status[t] = "connected" /\ ~isCamOn[t] /\ timers[t] = 0
        /\ \E r \in Tabs : \E f \in Frames : <<localId[t], f>> \in recvFrame[r]

\* the frame last received by tab t for id since its entry was added, 0 if none
LatestFrame(t, id) ==
    IF \E f \in Frames : <<id, f>> \in recvFrame[t]
    THEN CHOOSE f \in Frames : <<id, f>> \in recvFrame[t]
    ELSE 0

\* C9: for every tab and every remote entry of its roster, lastFrame is the
\* frame of the latest VIDEO_FRAME received for that id since the entry was
\* added, and absent if none was received.
C9_LastFrameIsLatest ==
    \A t \in Tabs : \A i \in DOMAIN participants[t] :
        LET p == participants[t][i]
        IN  (~p.isLocal /\ ~p.isAI) => p.lastFrame = LatestFrame(t, p.id)

\* a remote entry holds a received frame and was since updated to camera off
C9_Witness ==
    \E t \in Tabs : \E i \in DOMAIN participants[t] :
        LET p == participants[t][i]
        IN  ~p.isLocal /\ p.lastFrame = 2 /\ ~p.isVideoOn /\ ~p.isAudioOn

\* C10: whenever no broadcast message is in flight, every entry for a
\* connected tab in another tab's roster has isAudioOn equal to that tab's
\* isMicOn and isVideoOn equal to its isCamOn.
C10_RemoteFlagsTrackToggles ==
    (\A q \in Tabs : inbox[q] = <<>>)
        => \A t \in Tabs : \A r \in Tabs \ {t} : \A i \in DOMAIN participants[r] :
              LET p == participants[r][i]
              IN  (p.id = localId[t] /\ status[t] = "connected" /\ tabOpen[t])
                     => (p.isAudioOn = isMicOn[t] /\ p.isVideoOn = isCamOn[t])

\* both tabs are connected, nothing is in flight, and the entry one holds for
\* the other, made from a PRESENCE reply, shows the microphone on after the
\* other switched it off
C10_Witness ==
    /\ \A q \in Tabs : inbox[q] = <<>>
    /\ \E t \in Tabs : \E r \in Tabs \ {t} : \E i \in DOMAIN participants[r] :
          /\ status[t] = "connected" /\ status[r] = "connected"
          /\ participants[r][i].id = localId[t]
          /\ participants[r][i].isAudioOn /\ ~isMicOn[t]

\* C11: if chunk A is delivered to onmessage before chunk B, A's buffer source
\* is given a start time no later than B's, whichever decode completes first.
C11_QueuedInArrivalOrder ==
    \A a, b \in sources : a.n < b.n => a.at <= b.at

\* C16: isAiSpeaking is true whenever a buffer source was started and has not
\* played to its end (and it becomes false once every started source ended and
\* no chunk is being decoded).
C16_SpeakingReflectsPlayback ==
    \A src \in sources : currentTime < src.to => isAiSpeaking

\* C12: once a tab completed startMeeting and every message that followed was
\* handled (none is queued), its roster holds an entry for every other
\* connected tab and each of those holds an entry for it, whatever the tab
\* had received before startMeeting was pressed.
C12_MutualRosterAfterStart ==
    (\A q \in Tabs : inbox[q] = <<>>)
        => \A t \in Tabs : \A r \in Tabs \ {t} :
              (status[t] = "connected" /\ status[r] = "connected"
                  /\ tabOpen[t] /\ tabOpen[r])
                 => localId[r] \in Ids(participants[t])

\* tab t posted a PRESENCE in this step
PresencePosted(t) ==
    \E r \in Tabs \ {t} :
        /\ Len(inbox'[r]) = Len(inbox[r]) + 1
        /\ inbox'[r][Len(inbox'[r])].type = "PRESENCE"
        /\ inbox'[r][Len(inbox'[r])].payload.id = localId[t]

\* C13: a tab whose status is idle, joining or ended never posts a PRESENCE
\* message (so that every remote entry of a roster is a tab in the meeting).
C13_OnlyConnectedTabsAnswer ==
    [][\A t \in Tabs : PresencePosted(t) => status[t] = "connected"]_vars

\* the roster holds the AI participant
HasAi(roster) == \E i \in DOMAIN roster : roster[i].isAI /\ roster[i].id = AiBotId

\* C14: in every reachable state of a page that runs handlers, the roster
\* holds the AI participant exactly when isAiActive is true.
C14_AiEntryIffActive ==
    \A t \in Tabs : Live(t) => (HasAi(participants[t]) <=> isAiActive[t])

\* C15: once toggleAi turned isAiActive to false and no connect of the tab is
\* pending, no streaming session the tab opened is open (so no microphone
\* audio is sent on one), also when the off press came before the connect
\* resolved.
C15_AiOffStopsPassThrough ==
    \A t \in Tabs :
        (Live(t) /\ ~isAiActive[t] /\ \A s \in Sessions : sess[t][s] # "pending")
            => \A s \in Sessions : sess[t][s] # "open"

\* C17: while status is connected, the entry with isLocal true in a tab's
\* roster has isAudioOn equal to isMicOn and isVideoOn equal to isCamOn, after
\* any sequence of toggleMic and toggleCam presses.
C17_LocalEntryCarriesFlags ==
    \A t \in Tabs : \A i \in DOMAIN participants[t] :
        LET p == participants[t][i]
        IN  (Live(t) /\ status[t] = "connected" /\ p.isLocal)
               => (p.isAudioOn = isMicOn[t] /\ p.isVideoOn = isCamOn[t])

\* C18: a press of toggleMic or toggleCam on a tab that holds no local stream
\* (status joining, the media request has not resolved) leaves isMicOn,
\* isCamOn, status and the roster unchanged and posts no message.
C18_TogglesWithoutStreamAreNoOps ==
    [][\A t \in Tabs :
        ((ToggleMic(t) \/ ToggleCam(t)) /\ ~localStream[t])
            => UNCHANGED <<isMicOn, isCamOn, status, participants, inbox>>]_vars

\* a tab is joining without a local stream, its buttons are rendered, and a
\* connected tab would receive an UPDATE if one were posted
C18_Witness ==
    \E t \in Tabs : \E r \in Tabs \ {t} :
        /\ InMeetingView(t) /\ status[t] = "joining" /\ ~localStream[t]
        /\ status[r] = "connected" /\ r \in Receivers(t)
        /\ Room(t, 1, 0)

\* the roster of tab t after the step differs from the one before it at most
\* in the entry with this id, and no entry was added, removed or moved
OnlyEntryChanged(t, id) ==
    LET prev == participants[t]
        next == participants'[t]
    IN  /\ Len(next) = Len(prev)
        /\ \A i \in DOMAIN prev :
              /\ next[i].id = prev[i].id
              /\ prev[i].id # id => next[i] = prev[i]
        /\ Cardinality({i \in DOMAIN prev : next[i] # prev[i]}) <= 1

\* C19: handling an UPDATE or a VIDEO_FRAME changes neither the ids of a
\* roster nor their order: it modifies at most the single entry whose id is
\* the payload's, and nothing when no entry has that id; handling a LEAVE for
\* an id that is not in the roster leaves the roster unchanged.
C19_UpdateFrameLeaveFrame ==
    [][\A t \in Tabs :
        Deliver(t) =>
            LET m == Head(inbox[t])
                known == m.payload.id \in Ids(participants[t])
            IN  /\ m.type \in {"UPDATE", "VIDEO_FRAME"}
                      => /\ OnlyEntryChanged(t, m.payload.id)
                         /\ ~known => participants'[t] = participants[t]
                /\ (m.type = "LEAVE" /\ ~known)
                      => participants'[t] = participants[t]]_vars

\* a connected tab's roster is its untouched local entry followed by a remote
\* entry that an UPDATE switched to microphone off and a VIDEO_FRAME gave a frame
C19_Witness ==
    \E t \in Tabs :
        /\ status[t] = "connected" /\ Len(participants[t]) = 2
        /\ participants[t][1] = LocalP(localId[t])
        /\ ~participants[t][2].isAudioOn
        /\ participants[t][2].lastFrame # 0

====
